---- MODULE Spec2Model ----
(***************************************************************************)
(* Model of src/app.py: a Streamlit page that loads njupt_news_cut.csv     *)
(* once through @st.cache_data, fits a TfidfVectorizer on its cut_content  *)
(* column and, for a typed query, ranks the rows by cosine similarity,     *)
(* showing at most ten rows whose score is at least 0.05.                  *)
(*                                                                         *)
(* Numbers.  numpy works in float64; the model works in fixed point.  An   *)
(* idf weight is kept in tenths (IdfScale), a similarity score in          *)
(* thousandths (ScoreScale), so 0.05 is the integer 50.  A row of the      *)
(* matrix is kept as its integer tf*idf weights; the L2 normalisation that *)
(* TfidfVectorizer applies to every row is applied where the cosine is     *)
(* taken (cosine similarity does not change when a vector is rescaled).    *)
(*                                                                         *)
(* Positions.  Rows are numbered from 1 here and from 0 in pandas/numpy.   *)
(***************************************************************************)
EXTENDS Integers, Sequences, FiniteSets, TLC

\* ------------------------------------------------------------ constants
\* sorted_indices = ...[:10]
TopK == 10
\* if score < 0.05: continue      (0.05 in thousandths)
RelevanceFloor == 50
\* TfidfVectorizer(max_features=10000)
MaxFeatures == 10000
\* fixed point: a score of 1.0 is ScoreScale, an idf of 1.0 is IdfScale
ScoreScale == 1000
IdfScale == 10

\* --------------------------------------------------------------- bounds
\* most rows of a corpus file in the single-session specification SpecSearch
MaxDocs == 11
\* most rows of a corpus file in the two-session specification Spec
MaxSharedDocs == 2
\* how many times the environment may replace or remove the corpus file
MaxWrites == 1

\* ------------------------------------------------------------- helpers
Range(f) == {f[i] : i \in DOMAIN f}

Min(a, b) == IF a <= b THEN a ELSE b

RECURSIVE SumOver(_, _)
\* the sum of f[x] over the finite set S
SumOver(f, S) ==
    IF S = {} THEN 0
    ELSE LET x == CHOOSE y \in S : TRUE IN f[x] + SumOver(f, S \ {x})

RECURSIVE IsqrtBetween(_, _, _)
\* the largest r in lo..hi with r*r <= n, for lo*lo <= n
IsqrtBetween(n, lo, hi) ==
    IF lo >= hi THEN lo
    ELSE LET mid == (lo + hi + 1) \div 2
         IN  IF mid * mid <= n THEN IsqrtBetween(n, mid, hi)
             ELSE IsqrtBetween(n, lo, mid - 1)

\* floor of the square root (np.sqrt in the row norms)
Isqrt(n) == IsqrtBetween(n, 0, 46340)

\* ---------------------------------------------------------- tokenizing
\* TfidfVectorizer lowercases the text before it tokenizes (lowercase=True)
Lower(t) == IF t = "BB" THEN "bb" ELSE t

\* The default token_pattern (?u)\b\w\w+\b keeps tokens of two or more
\* word characters: one-character tokens and blanks never reach the
\* vocabulary.  A text is the sequence of tokens that whitespace separates.
Analyze(text) ==
    LET low == [i \in DOMAIN text |-> Lower(text[i])]
    IN  SelectSeq(low, LAMBDA t : Len(t) >= 2)

\* jieba's segmentation of one run of characters: a run that is a word of
\* its dictionary stays whole, the run "aabb" is cut into its two words
Segment(run) == IF run = "aabb" THEN <<"aa", "bb">> ELSE <<run>>

RECURSIVE lcut(_)
\* jieba.lcut(text): the text is the runs the user typed, blanks between
\* them; each run is segmented and each blank comes back as a token
lcut(text) ==
    IF text = << >> THEN << >>
    ELSE IF Len(text) = 1 THEN Segment(text[1])
    ELSE Segment(Head(text)) \o <<" ">> \o lcut(Tail(text))

\* query_cut = " ".join(jieba.lcut(query)): the tokens, kept apart by blanks
query_cut(query) == lcut(query)

\* term frequency of t in an analyzed text
Count(tokens, t) == Cardinality({i \in DOMAIN tokens : tokens[i] = t})

\* ------------------------------------------------------------- fitting
\* every term of the analyzed corpus
Terms(corpus) == UNION {Range(Analyze(corpus[i])) : i \in DOMAIN corpus}

\* total occurrences of t in the corpus (the tfs of _limit_features)
TotalCount(corpus, t) ==
    SumOver([i \in DOMAIN corpus |-> Count(Analyze(corpus[i]), t)], DOMAIN corpus)

\* max_features keeps the MaxFeatures terms with the highest total count
LimitFeatures(corpus) ==
    LET all == Terms(corpus)
    IN  IF Cardinality(all) <= MaxFeatures THEN all
        ELSE CHOOSE V \in SUBSET all :
                /\ Cardinality(V) = MaxFeatures
                /\ \A t \in V, u \in all \ V :
                      TotalCount(corpus, t) >= TotalCount(corpus, u)

\* number of documents that contain t
DocFreq(corpus, t) ==
    Cardinality({i \in DOMAIN corpus : Count(Analyze(corpus[i]), t) > 0})

\* 10 * ln(k), rounded, for k = 1 .. 18
LnTenths ==
    <<0, 7, 11, 14, 16, 18, 19, 21, 22, 23, 24, 25, 26, 26, 27, 28, 28, 29>>

\* smooth_idf: idf(t) = ln((1 + n) / (1 + df)) + 1, in tenths
Idf(n, df) == LnTenths[1 + n] - LnTenths[1 + df] + IdfScale

\* vectorizer.transform: tf * idf over the fitted vocabulary; terms outside
\* the vocabulary are dropped
Transform(vectorizer, text) ==
    LET tokens == Analyze(text)
    IN  [t \in vectorizer.vocabulary |-> Count(tokens, t) * vectorizer.idf[t]]

\* TfidfVectorizer(max_features=10000) fitted on the corpus
Fit(corpus) ==
    LET voc == LimitFeatures(corpus)
    IN  [vocabulary |-> voc,
         idf |-> [t \in voc |-> Idf(Len(corpus), DocFreq(corpus, t))]]

\* fit_transform(corpus) raises ValueError("empty vocabulary ...") when no
\* document holds a token
EmptyVocabulary(corpus) == Terms(corpus) = {}

\* the document-term matrix of fit_transform
FitTransformMatrix(corpus) ==
    LET v == Fit(corpus) IN [i \in DOMAIN corpus |-> Transform(v, corpus[i])]

\* ------------------------------------------------------------- ranking
Dot(u, v) == SumOver([t \in DOMAIN u |-> u[t] * v[t]], DOMAIN u)

\* Cosine with the division by the row's norm left out: the dot product is
\* divided by the query's squared norm only
Cosine_QueryNormOnly(u, v) ==
    IF Dot(u, u) * Dot(v, v) = 0 THEN 0
    ELSE (ScoreScale * Dot(u, v)) \div Dot(u, u)

\* cosine of two weight vectors in thousandths; a zero vector scores 0
\* (sklearn's normalize leaves a zero row as it is)
Cosine(u, v) ==
    LET n2 == Dot(u, u) * Dot(v, v)
    IN  IF n2 = 0 THEN 0 ELSE (ScoreScale * Dot(u, v)) \div Isqrt(n2)

\* cosine_similarity(query_vec, tfidf_matrix).flatten()
cosine_similarity(query_vec, tfidf_matrix) ==
    [i \in DOMAIN tfidf_matrix |-> Cosine(query_vec, tfidf_matrix[i])]

\* argsort() sorts with numpy's default kind, quicksort, which does not keep
\* the order of equal elements.  The place of equal scores is therefore a
\* choice: a tie key orders them by position, rotated by rot, upwards
\* (dir = 1; rot = 0 is what a stable sort gives) or downwards (dir = -1).
TieKeys(n) == {[dir |-> d, rot |-> r] : d \in {1, -1}, r \in 0 .. n - 1}

TieRank(k, i, n) == k.dir * ((i + k.rot) % n)

\* position i sorts before position j
Before(scores, k, i, j) ==
    \/ scores[i] < scores[j]
    \/ /\ scores[i] = scores[j]
       /\ TieRank(k, i, Len(scores)) < TieRank(k, j, Len(scores))

\* sim_scores.argsort(): the positions in ascending order of score
argsort(scores, k) ==
    LET n == Len(scores)
    IN  [p \in 1 .. n |->
            CHOOSE i \in 1 .. n :
                Cardinality({j \in 1 .. n : Before(scores, k, j, i)}) = p - 1]

\* seq[::-1]
Reverse(seq) == [p \in 1 .. Len(seq) |-> seq[Len(seq) + 1 - p]]

\* seq[:m]
Take(seq, m) == SubSeq(seq, 1, Min(m, Len(seq)))

\* sorted_indices without the cut: argsort()[::-1]
sorted_indices_NoCut(sim_scores, k) == Reverse(argsort(sim_scores, k))

\* sorted_indices without the reversal: argsort()[:10]
sorted_indices_NoReverse(sim_scores, k) == Take(argsort(sim_scores, k), TopK)

\* sorted_indices with the cut before the reversal: argsort()[:10][::-1]
sorted_indices_CutFirst(sim_scores, k) ==
    Reverse(Take(argsort(sim_scores, k), TopK))

\* sorted_indices = sim_scores.argsort()[::-1][:10]
sorted_indices(sim_scores, k) == Take(Reverse(argsort(sim_scores, k)), TopK)

\* the display loop without `if score < 0.05: continue`
Displayed_NoFloor(sim_scores, indices) ==
    [p \in 1 .. Len(indices) |->
        [idx |-> indices[p], score |-> sim_scores[indices[p]]]]

\* the display loop: a row is skipped when its score is below 0.05, shown
\* and counted otherwise
Displayed(sim_scores, indices) ==
    LET kept == SelectSeq(indices, LAMBDA idx : ~(sim_scores[idx] < RelevanceFloor))
    IN  [p \in 1 .. Len(kept) |-> [idx |-> kept[p], score |-> sim_scores[kept[p]]]]

\* ------------------------------------------------------------- the disk
\* None and Some(x): a Python value that may be None
None == << >>
Some(x) == <<x>>

\* cut_content of the rows the model writes to njupt_news_cut.csv
DocPool ==
    << <<"aa", "bb", "bb", "bb">>,
       <<"aa", "cc", "cc", "cc">>,
       <<"aa", "BB">>,
       <<"x">> >>

\* a corpus file of n rows: the pool from row `first` on, every row the same
\* (stride 0) or the pool in turn (stride 1)
Corpus(n, first, stride) ==
    [i \in 1 .. n |->
        LET k == ((first - 1 + (i - 1) * stride) % Len(DocPool)) + 1
        IN  [cut_content |-> DocPool[k], title |-> k]]

\* what may be on disk in SpecSearch: no file, or a corpus of at most
\* MaxDocs rows
Files ==
    {None} \cup {Some(Corpus(n, f, st)) :
                    n \in 0 .. MaxDocs, f \in 1 .. Len(DocPool), st \in {0, 1}}

\* what may be on disk in Spec: no file, or the first rows of the pool
SharedFiles == {None} \cup {Some(Corpus(n, 1, 1)) : n \in 0 .. MaxSharedDocs}

\* what the user may type, as the runs between blanks: the empty string,
\* the content of a row, words no row holds, a lone character, two words
\* typed without a blank
Queries == Range(DocPool) \cup {<< >>, <<"zz">>, <<"zz", "x">>, <<"aabb", "zz">>}

\* the queries of the two sessions of Spec
SharedQueries == {<< >>, <<"zz">>, DocPool[1]}

\* df['cut_content'].values
CutContent(frame) == [i \in DOMAIN frame |-> frame[i].cut_content]

\* ------------------------------------------------------------ the state
Sessions == {1, 2}

NoneTriple == [df |-> None, vectorizer |-> None, tfidf_matrix |-> None]

VARIABLES
    disk,          \* njupt_news_cut.csv: None (no file) or Some(rows)
    writes,        \* how often the environment has changed the file
    cache,         \* st.cache_data's entry for load_data_and_model()
    lock,          \* the session computing the cached value, or 0
    body_runs,     \* executions of the body of load_data_and_model begun (0, 1, 2 = more)
    pc,            \* where each session's script run is
    query,         \* st.text_input's value in the run
    search_btn,    \* st.button's value in the run
    body_df,       \* df inside load_data_and_model, between read_csv and fit
    df,            \* the script's df, vectorizer, tfidf_matrix (line 36)
    vectorizer,
    tfidf_matrix,
    shown,         \* the result containers rendered by the run, in order
    found_count,
    page           \* what the run rendered last

vars ==
    <<disk, writes, cache, lock, body_runs, pc, query, search_btn, body_df,
      df, vectorizer, tfidf_matrix, shown, found_count, page>>

\* the variables of the script's namespace and widgets, per session
InitSessions ==
    /\ pc = [s \in Sessions |-> "new"]
    /\ query = [s \in Sessions |-> << >>]
    /\ search_btn = [s \in Sessions |-> FALSE]
    /\ body_df = [s \in Sessions |-> None]
    /\ df = [s \in Sessions |-> None]
    /\ vectorizer = [s \in Sessions |-> None]
    /\ tfidf_matrix = [s \in Sessions |-> None]
    /\ shown = [s \in Sessions |-> << >>]
    /\ found_count = [s \in Sessions |-> 0]
    /\ page = [s \in Sessions |-> "blank"]

InitProcess ==
    /\ writes = 0
    /\ cache = [hit |-> FALSE, value |-> NoneTriple]
    /\ lock = 0
    /\ body_runs = 0
    /\ InitSessions

Init == disk \in SharedFiles /\ InitProcess

InitSearch == disk \in Files /\ InitProcess

\* ---------------------------------------------------------- the script
\* A browser session connects: Streamlit runs the script top to bottom with
\* the widgets at their defaults (empty text box, button not pressed).
Connect(s) ==
    /\ pc[s] = "new"
    /\ pc' = [pc EXCEPT ![s] = "load"]
    /\ page' = [page EXCEPT ![s] = "running"]
    /\ UNCHANGED <<disk, writes, cache, lock, body_runs, query, search_btn,
                   body_df, df, vectorizer, tfidf_matrix, shown, found_count>>

\* The user edits the text box or presses the button: Streamlit reruns the
\* script from the top in a fresh namespace, with the widgets' new values.
\* Nothing the previous run computed or rendered is kept.
Rerun(s, q, b) ==
    /\ pc[s] = "idle"
    /\ pc' = [pc EXCEPT ![s] = "load"]
    /\ query' = [query EXCEPT ![s] = q]
    /\ search_btn' = [search_btn EXCEPT ![s] = b]
    /\ df' = [df EXCEPT ![s] = None]
    /\ vectorizer' = [vectorizer EXCEPT ![s] = None]
    /\ tfidf_matrix' = [tfidf_matrix EXCEPT ![s] = None]
    /\ shown' = [shown EXCEPT ![s] = << >>]
    /\ found_count' = [found_count EXCEPT ![s] = 0]
    /\ page' = [page EXCEPT ![s] = "running"]
    /\ UNCHANGED <<disk, writes, cache, lock, body_runs, body_df>>

\* df, vectorizer, tfidf_matrix = load_data_and_model(), the value cached:
\* st.cache_data hands back the stored return value, the body does not run
LoadCached(s) ==
    /\ pc[s] = "load"
    /\ cache.hit
    /\ df' = [df EXCEPT ![s] = cache.value.df]
    /\ vectorizer' = [vectorizer EXCEPT ![s] = cache.value.vectorizer]
    /\ tfidf_matrix' = [tfidf_matrix EXCEPT ![s] = cache.value.tfidf_matrix]
    /\ pc' = [pc EXCEPT ![s] = "main"]
    /\ UNCHANGED <<disk, writes, cache, lock, body_runs, query, search_btn,
                   body_df, shown, found_count, page>>

\* load_data_and_model(), nothing cached: st.cache_data computes the value
\* under its lock, so one session at a time runs the body and a session that
\* calls meanwhile waits for it
LoadMiss(s) ==
    /\ pc[s] = "load"
    /\ ~cache.hit
    /\ lock = 0
    /\ lock' = s
    /\ body_runs' = Min(body_runs + 1, 2)
    /\ pc' = [pc EXCEPT ![s] = "read_csv"]
    /\ UNCHANGED <<disk, writes, cache, query, search_btn, body_df, df,
                   vectorizer, tfidf_matrix, shown, found_count, page>>

\* the value a call of the body returns: stored in the cache, assigned to
\* the script's three names, the lock released
Return(s, value) ==
    /\ cache' = [hit |-> TRUE, value |-> value]
    /\ df' = [df EXCEPT ![s] = value.df]
    /\ vectorizer' = [vectorizer EXCEPT ![s] = value.vectorizer]
    /\ tfidf_matrix' = [tfidf_matrix EXCEPT ![s] = value.tfidf_matrix]
    /\ body_df' = [body_df EXCEPT ![s] = None]
    /\ lock' = 0
    /\ pc' = [pc EXCEPT ![s] = "main"]

\* try: df = pd.read_csv(...)  except FileNotFoundError: return None, None, None
ReadCsv(s) ==
    /\ pc[s] = "read_csv"
    /\ IF disk = None
       THEN Return(s, NoneTriple)
       ELSE /\ body_df' = [body_df EXCEPT ![s] = disk]
            /\ pc' = [pc EXCEPT ![s] = "fit"]
            /\ UNCHANGED <<cache, lock, df, vectorizer, tfidf_matrix>>
    /\ UNCHANGED <<disk, writes, body_runs, query, search_btn, shown,
                   found_count, page>>

\* the body fitting the vectorizer on the file as it is on disk by now,
\* not on the frame it read
Loaded_RereadsFile(frame) ==
    LET now == IF disk = None THEN frame ELSE disk[1]
    IN  [df |-> Some(frame),
         vectorizer |-> Some(Fit(CutContent(now))),
         tfidf_matrix |-> Some(FitTransformMatrix(CutContent(now)))]

\* what the body returns for the frame it read
Loaded(frame) ==
    [df |-> Some(frame),
     vectorizer |-> Some(Fit(CutContent(frame))),
     tfidf_matrix |-> Some(FitTransformMatrix(CutContent(frame)))]

\* the load storing the frame it read as the cached value before it fits:
\* when fit_transform raises, the cache is left holding a frame and no model
FitTransform_StoresFrame(s) ==
    /\ pc[s] = "fit"
    /\ IF EmptyVocabulary(CutContent(body_df[s][1]))
       THEN /\ cache' = [hit |-> TRUE,
                         value |-> [df |-> body_df[s],
                                    vectorizer |-> None,
                                    tfidf_matrix |-> None]]
            /\ lock' = 0
            /\ body_df' = [body_df EXCEPT ![s] = None]
            /\ page' = [page EXCEPT ![s] = "exception"]
            /\ pc' = [pc EXCEPT ![s] = "idle"]
            /\ UNCHANGED <<df, vectorizer, tfidf_matrix>>
       ELSE /\ Return(s, Loaded(body_df[s][1]))
            /\ UNCHANGED page
    /\ UNCHANGED <<disk, writes, body_runs, query, search_btn, shown, found_count>>

\* corpus = df['cut_content'].values; vectorizer = TfidfVectorizer(...);
\* tfidf_matrix = vectorizer.fit_transform(corpus); return df, vectorizer,
\* tfidf_matrix.  fit_transform raises ValueError on an empty vocabulary:
\* nothing catches it, st.cache_data stores nothing, the run ends with the
\* traceback on the page.
FitTransform(s) ==
    /\ pc[s] = "fit"
    /\ IF EmptyVocabulary(CutContent(body_df[s][1]))
       THEN /\ lock' = 0
            /\ body_df' = [body_df EXCEPT ![s] = None]
            /\ page' = [page EXCEPT ![s] = "exception"]
            /\ pc' = [pc EXCEPT ![s] = "idle"]
            /\ UNCHANGED <<cache, df, vectorizer, tfidf_matrix>>
       ELSE /\ Return(s, Loaded(body_df[s][1]))
            /\ UNCHANGED page
    /\ UNCHANGED <<disk, writes, body_runs, query, search_btn, shown, found_count>>

\* `if df is None` without st.stop(): the script goes on to the widgets and,
\* asked to search, calls vectorizer.transform on None
NotFound_NoStop(s) ==
    /\ pc[s] = "main"
    /\ df[s] = None
    /\ page' = [page EXCEPT ![s] =
                   IF search_btn[s] /\ query[s] # << >> THEN "exception" ELSE "form"]
    /\ pc' = [pc EXCEPT ![s] = "idle"]
    /\ UNCHANGED <<disk, writes, cache, lock, body_runs, query, search_btn,
                   body_df, df, vectorizer, tfidf_matrix, shown, found_count>>

\* if df is None: st.error(...); st.stop()
NotFound(s) ==
    /\ pc[s] = "main"
    /\ df[s] = None
    /\ page' = [page EXCEPT ![s] = "error"]
    /\ pc' = [pc EXCEPT ![s] = "idle"]
    /\ UNCHANGED <<disk, writes, cache, lock, body_runs, query, search_btn,
                   body_df, df, vectorizer, tfidf_matrix, shown, found_count>>

\* the text box and the button are drawn; `if search_btn and query` is false
ShowForm(s) ==
    /\ pc[s] = "main"
    /\ df[s] # None
    /\ ~(search_btn[s] /\ query[s] # << >>)
    /\ page' = [page EXCEPT ![s] = "form"]
    /\ pc' = [pc EXCEPT ![s] = "idle"]
    /\ UNCHANGED <<disk, writes, cache, lock, body_runs, query, search_btn,
                   body_df, df, vectorizer, tfidf_matrix, shown, found_count>>

\* sim_scores of a session's run, from the names the script holds
SimScores(s) ==
    cosine_similarity(Transform(vectorizer[s][1], query_cut(query[s])),
                      tfidf_matrix[s][1])

\* the search block training the model again on every search, the query
\* added to the corpus (what the cache is there to avoid)
Search_Refits(s) ==
    /\ pc[s] = "main"
    /\ df[s] # None
    /\ search_btn[s] /\ query[s] # << >>
    /\ LET sim_scores == SimScores(s)
           corpus == Append(CutContent(df[s][1]), query_cut(query[s]))
       IN  /\ vectorizer' = [vectorizer EXCEPT ![s] = Some(Fit(corpus))]
           /\ tfidf_matrix' =
                 [tfidf_matrix EXCEPT ![s] = Some(FitTransformMatrix(corpus))]
           /\ \E k \in TieKeys(Len(sim_scores)) :
                 LET results == Displayed(sim_scores, sorted_indices(sim_scores, k))
                 IN  /\ shown' = [shown EXCEPT ![s] = results]
                     /\ found_count' = [found_count EXCEPT ![s] = Len(results)]
                     /\ page' = [page EXCEPT ![s] =
                                    IF Len(results) = 0 THEN "warning" ELSE "success"]
    /\ pc' = [pc EXCEPT ![s] = "idle"]
    /\ UNCHANGED <<disk, writes, cache, lock, body_runs, query, search_btn,
                   body_df, df>>

\* if search_btn and query: vectorize the query, score every row, take the
\* ten best, show those at or above 0.05, then the warning or the count
Search(s) ==
    /\ pc[s] = "main"
    /\ df[s] # None
    /\ search_btn[s] /\ query[s] # << >>
    /\ LET sim_scores == SimScores(s)
       IN  \E k \in TieKeys(Len(sim_scores)) :
              LET results == Displayed(sim_scores, sorted_indices(sim_scores, k))
              IN  /\ shown' = [shown EXCEPT ![s] = results]
                  /\ found_count' = [found_count EXCEPT ![s] = Len(results)]
                  /\ page' = [page EXCEPT ![s] =
                                 IF Len(results) = 0 THEN "warning" ELSE "success"]
    /\ pc' = [pc EXCEPT ![s] = "idle"]
    /\ UNCHANGED <<disk, writes, cache, lock, body_runs, query, search_btn,
                   body_df, df, vectorizer, tfidf_matrix>>

\* the environment replaces, removes or creates njupt_news_cut.csv
ReplaceFile(f) ==
    /\ writes < MaxWrites
    /\ f # disk
    /\ disk' = f
    /\ writes' = writes + 1
    /\ UNCHANGED <<cache, lock, body_runs, pc, query, search_btn, body_df, df,
                   vectorizer, tfidf_matrix, shown, found_count, page>>

\* one step of session s, whose user types the queries of Q
Step(s, Q) ==
    \/ Connect(s)
    \/ \E q \in Q, b \in BOOLEAN : Rerun(s, q, b)
    \/ LoadCached(s)
    \/ LoadMiss(s)
    \/ ReadCsv(s)
    \/ FitTransform(s)
    \/ NotFound(s)
    \/ ShowForm(s)
    \/ Search(s)

\* two browser sessions of one server process, and the file changing
Next ==
    \/ \E s \in Sessions : Step(s, SharedQueries)
    \/ \E f \in SharedFiles : ReplaceFile(f)

Spec == Init /\ [][Next]_vars

\* one browser session, any corpus file of up to MaxDocs rows
NextSearch == Step(1, Queries)

SpecSearch == InitSearch /\ [][NextSearch]_vars

\* ----------------------------------------------------------- properties
\* the run of session s executed the search block and has ended
Searched(s) == pc[s] = "idle" /\ page[s] \in {"warning", "success"}

\* the rows of the session's df whose score is at or above the floor
Survivors(s) == {i \in DOMAIN SimScores(s) : SimScores(s)[i] >= RelevanceFloor}

\* every result shown is a row of df with the score the run computed for it,
\* and no row is shown twice
ShownFromScores(s) ==
    /\ \A p \in DOMAIN shown[s] :
          /\ shown[s][p].idx \in DOMAIN SimScores(s)
          /\ shown[s][p].score = SimScores(s)[shown[s][p].idx]
    /\ \A p, r \in DOMAIN shown[s] : shown[s][p].idx = shown[s][r].idx => p = r

\* C1: a search shows at most top_k (10) results, every result shown has a
\* score of at least the relevance floor (0.05), found_count counts exactly
\* the results shown, and each is a row with its own score.
C1_BoundedOutput ==
    \A s \in Sessions :
        /\ Len(shown[s]) <= TopK
        /\ found_count[s] = Len(shown[s])
        /\ \A p \in DOMAIN shown[s] : shown[s][p].score >= RelevanceFloor
        /\ Searched(s) => ShownFromScores(s)

\* C1 witness: a search over a corpus in which more than top_k rows reach
\* the floor, so the cut to ten is what bounds the list.
C1_Witness ==
    \E s \in Sessions :
        /\ Searched(s)
        /\ Cardinality(Survivors(s)) > TopK
        /\ Len(shown[s]) = TopK

\* C2 as stated: scores are non-increasing in display order and results of
\* equal score appear in ascending row order.
C2_TiesAscendingId ==
    \A s \in Sessions : \A p, r \in DOMAIN shown[s] :
        p < r =>
            /\ shown[s][p].score >= shown[s][r].score
            /\ shown[s][p].score = shown[s][r].score
                  => shown[s][p].idx < shown[s][r].idx

\* C2 amended: scores are non-increasing in display order (each the score of
\* its row); the order of rows of equal score is not fixed.
C2_NonIncreasing ==
    \A s \in Sessions :
        /\ \A p, r \in DOMAIN shown[s] :
              p < r => shown[s][p].score >= shown[s][r].score
        /\ Searched(s) => ShownFromScores(s)

\* C2 witness: a result list with a strict drop in score and with two rows
\* of equal score shown in descending row order.
C2_Witness ==
    \E s \in Sessions :
        /\ Searched(s)
        /\ \E p, r \in DOMAIN shown[s] :
              p < r /\ shown[s][p].score > shown[s][r].score
        /\ \E p, r \in DOMAIN shown[s] :
              /\ p < r
              /\ shown[s][p].score = shown[s][r].score
              /\ shown[s][p].idx > shown[s][r].idx

\* The Ranker the claim compares with: drop the rows below the floor, sort
\* the rest by score descending and by ascending row on equal score, keep the
\* first top_k.
Ranker(scores) ==
    LET surv == {i \in DOMAIN scores : scores[i] >= RelevanceFloor}
        Ahead(i, j) == scores[i] > scores[j] \/ (scores[i] = scores[j] /\ i < j)
        order == [p \in 1 .. Cardinality(surv) |->
                     CHOOSE i \in surv :
                         Cardinality({j \in surv : Ahead(j, i)}) = p - 1]
    IN  [p \in 1 .. Min(TopK, Cardinality(surv)) |->
            [idx |-> order[p], score |-> scores[order[p]]]]

\* C9 as stated: cutting to ten and then dropping the rows below the floor
\* gives the same ordered result list as the Ranker.
C9_SameListAsRanker ==
    \A s \in Sessions : Searched(s) => shown[s] = Ranker(SimScores(s))

\* C9 amended: cutting to ten and then dropping the rows below the floor
\* gives a list as long as the Ranker's with the same score at every place,
\* each score that of the row shown; so no row at or above the floor is lost
\* to the cut, and the lists are equal when no two surviving rows tie.
C9_SameScoresAsRanker ==
    \A s \in Sessions :
        Searched(s) =>
            LET ranked == Ranker(SimScores(s))
            IN  /\ Len(shown[s]) = Len(ranked)
                /\ Len(shown[s]) = Min(TopK, Cardinality(Survivors(s)))
                /\ \A p \in DOMAIN shown[s] : shown[s][p].score = ranked[p].score
                /\ ShownFromScores(s)
                /\ (\A i, j \in Survivors(s) :
                        SimScores(s)[i] = SimScores(s)[j] => i = j)
                      => shown[s] = ranked

\* C9 witness: a search in which one of the ten best rows is below the floor
\* and is dropped after the cut, while other rows are shown.
C9_Witness ==
    \E s \in Sessions :
        /\ Searched(s)
        /\ shown[s] # << >>
        /\ Len(shown[s]) < Min(TopK, Len(SimScores(s)))
        /\ \E i \in DOMAIN SimScores(s) :
              SimScores(s)[i] > 0 /\ SimScores(s)[i] < RelevanceFloor

\* the vocabulary terms of a text, for a fitted vectorizer
VocabularyTerms(v, text) == Range(Analyze(text)) \cap v.vocabulary

\* C6: in the Indexed state a run whose query is the empty string, or holds
\* no term of the vocabulary, ends without an error and shows nothing
\* (found_count = 0); when the search block ran, every row scored 0.
C6_NoOverlapIsEmpty ==
    \A s \in Sessions :
        (/\ pc[s] = "idle"
         /\ df[s] # None
         /\ VocabularyTerms(vectorizer[s][1], query_cut(query[s])) = {})
        => /\ shown[s] = << >>
           /\ found_count[s] = 0
           /\ page[s] \in {"form", "warning"}
           /\ Searched(s) => \A i \in DOMAIN SimScores(s) : SimScores(s)[i] = 0

\* C6 witness: a search for words that no row holds ended with the
\* "nothing found" warning over a corpus that is indexed.
C6_Witness ==
    \E s \in Sessions :
        /\ Searched(s)
        /\ page[s] = "warning"
        /\ Analyze(query_cut(query[s])) # << >>
        /\ VocabularyTerms(vectorizer[s][1], query_cut(query[s])) = {}
        /\ Len(df[s][1]) > 1

\* the rows of the session's df whose whole token content is its query and
\* that hold at least one vocabulary term
SelfQueried(s) ==
    {d \in DOMAIN df[s][1] :
        /\ df[s][1][d].cut_content = query[s]
        /\ VocabularyTerms(vectorizer[s][1], df[s][1][d].cut_content) # {}}

\* C7 as stated: a row queried by its own token content is returned, and no
\* returned row scores higher.
C7_SelfReturnedOnTop ==
    \A s \in Sessions :
        Searched(s) =>
            \A d \in SelfQueried(s) :
                /\ \E p \in DOMAIN shown[s] : shown[s][p].idx = d
                /\ \A p \in DOMAIN shown[s] : shown[s][p].score <= SimScores(s)[d]

\* C7 amended: a row queried by its own token content scores 1.0, the
\* highest score of any row, so no returned row scores higher; the row is
\* itself returned unless top_k rows of the same score fill the list.
C7_SelfScoresMax ==
    \A s \in Sessions :
        Searched(s) =>
            \A d \in SelfQueried(s) :
                /\ SimScores(s)[d] = ScoreScale
                /\ \A i \in DOMAIN SimScores(s) : SimScores(s)[i] <= SimScores(s)[d]
                /\ \A p \in DOMAIN shown[s] : shown[s][p].score <= SimScores(s)[d]
                /\ \/ \E p \in DOMAIN shown[s] : shown[s][p].idx = d
                   \/ /\ Len(shown[s]) = TopK
                      /\ \A p \in DOMAIN shown[s] :
                            shown[s][p].score = SimScores(s)[d]

\* C7 witness: a row queried by its own content is shown first, ahead of
\* rows that score less.
C7_Witness ==
    \E s \in Sessions :
        /\ Searched(s)
        /\ \E d \in SelfQueried(s) :
              /\ shown[s][1].idx = d
              /\ \E p \in DOMAIN shown[s] : shown[s][p].score < shown[s][1].score

\* a step in which the run of session s leaves `if df is None` or the search
\* block
LeavesMain(s) == pc[s] = "main" /\ pc'[s] # "main"

\* C3: a run whose load returned no index (df is None) ends at once with the
\* not-found error, showing no result; the search block runs only in a run
\* that holds an index.
C3_NotReady ==
    [][\A s \in Sessions :
          /\ (LeavesMain(s) /\ df[s] = None)
                => /\ pc'[s] = "idle"
                   /\ page'[s] = "error"
                   /\ shown'[s] = << >>
                   /\ found_count'[s] = 0
          /\ (LeavesMain(s) /\ page'[s] \in {"warning", "success"})
                => /\ df[s] # None
                   /\ vectorizer[s] # None
                   /\ tfidf_matrix[s] # None]_vars

\* C3 witness: a run that was asked to search (button pressed, query typed)
\* ended with the not-found error.
C3_Witness ==
    \E s \in Sessions :
        /\ pc[s] = "idle"
        /\ page[s] = "error"
        /\ search_btn[s]
        /\ query[s] # << >>
        /\ shown[s] = << >>

\* the triple a script run would get from the cache: the entry, or no index
Index(c) == IF c.hit THEN c.value ELSE NoneTriple

\* a step in which the load of session s fails: the file is missing, or
\* fit_transform raises
LoadFails(s) ==
    \/ pc[s] = "read_csv" /\ pc'[s] = "main"
    \/ pc[s] = "fit" /\ pc'[s] = "idle"

\* C4: a load that fails leaves the index as it was, for the cache and for
\* every other session; and a search always works on the triple built from
\* the corpus of the one load that succeeded, which the cache holds.
C4_FailedLoadKeepsIndex ==
    /\ [][\A s \in Sessions :
             LoadFails(s) =>
                 /\ Index(cache') = Index(cache)
                 /\ \A t \in Sessions \ {s} :
                       /\ df'[t] = df[t]
                       /\ vectorizer'[t] = vectorizer[t]
                       /\ tfidf_matrix'[t] = tfidf_matrix[t]]_vars
    /\ [](\A s \in Sessions :
             Searched(s) =>
                 /\ cache.hit
                 /\ cache.value.df # None
                 /\ cache.value = Loaded(cache.value.df[1])
                 /\ df[s] = cache.value.df
                 /\ vectorizer[s] = cache.value.vectorizer
                 /\ tfidf_matrix[s] = cache.value.tfidf_matrix)

\* C4 witness: one session's load failed with the exception, the file was
\* then replaced, and another session loaded it and got results.
C4_Witness ==
    \E s, t \in Sessions :
        /\ page[s] = "exception"
        /\ Searched(t)
        /\ shown[t] # << >>
        /\ writes > 0

\* C5: the df, vectorizer and matrix a run holds are all from one load: all
\* None, or the vectorizer and the matrix fitted on that very df; and they are
\* the triple the cache holds.
C5_TripleFromOneLoad ==
    \A s \in Sessions :
        /\ df[s] = None => vectorizer[s] = None /\ tfidf_matrix[s] = None
        /\ df[s] # None =>
              /\ vectorizer[s] = Some(Fit(CutContent(df[s][1])))
              /\ tfidf_matrix[s] = Some(FitTransformMatrix(CutContent(df[s][1])))
        /\ pc[s] \in {"main", "idle"} /\ page[s] \notin {"blank", "exception"}
              => /\ cache.hit
                 /\ df[s] = cache.value.df
                 /\ vectorizer[s] = cache.value.vectorizer
                 /\ tfidf_matrix[s] = cache.value.tfidf_matrix

\* C5 witness: a session got results from its triple after the file on disk
\* had changed, while the other session's run is in flight with the same df.
C5_Witness ==
    \E s, t \in Sessions :
        /\ s # t
        /\ Searched(s)
        /\ shown[s] # << >>
        /\ disk # df[s]
        /\ pc[t] = "main"
        /\ df[t] = df[s]

\* a step in which the run of session s executes the search block
SearchStep(s) == LeavesMain(s) /\ page'[s] \in {"warning", "success"}

\* C8: the search block changes neither the cache nor any session's df,
\* vectorizer or matrix, which stay the values the load produced; and a new
\* run starts with no result of the run before it.
C8_SearchReadsOnly ==
    /\ [][\A s \in Sessions :
             SearchStep(s) =>
                 /\ cache' = cache
                 /\ df' = df
                 /\ vectorizer' = vectorizer
                 /\ tfidf_matrix' = tfidf_matrix
                 /\ cache.value = Loaded(df[s][1])]_vars
    /\ [](\A s \in Sessions :
             pc[s] \in {"load", "read_csv", "fit", "main"}
                => shown[s] = << >> /\ found_count[s] = 0)

\* C8 witness: both sessions have searched, one with results and one
\* without, and the cache still holds the triple the load produced.
C8_Witness ==
    \E s, t \in Sessions :
        /\ Searched(s) /\ shown[s] # << >>
        /\ Searched(t) /\ shown[t] = << >>
        /\ cache.value = Loaded(df[s][1])

\* C10 as stated: the body of load_data_and_model executes only on the first
\* script run of the process, every later run reusing the cached value.
C10_BodyRunsOnce == body_runs <= 1

====
